---------------------------- MODULE Spec2Model ----------------------------
(***************************************************************************)
(* The Conclave Room Protocol serialization (src/src/lib.rs).              *)
(*                                                                         *)
(* The crate is a set of pure encode / decode functions.  They are         *)
(* operators here, computed step by step as the code computes them, and a  *)
(* small harness applies them: a caller constructs a command or the        *)
(* transport delivers a buffer, and the codec's functions are then called  *)
(* on whatever is in hand, one call per step.  Every call is stateless, so *)
(* one behaviour follows one message: a fresh input, then the calls made   *)
(* on it and on what they return.                                          *)
(*                                                                         *)
(* Representation.  An octet is a number in 0..255, a Term (u16) a number  *)
(* in 0..65535.  A 64-bit value (Knowledge, custom_user_id) is kept as     *)
(* four 16-bit limbs, most significant first, <<l3, l2, l1, l0>>, standing *)
(* for l3*2^48 + l2*2^32 + l1*2^16 + l0, so that every arithmetic step     *)
(* stays inside 32-bit integers.  A Rust panic is the result               *)
(* [kind |-> "Panic"]: the call is aborted and the caller gets no value.   *)
(***************************************************************************)
EXTENDS Integers, Sequences, FiniteSets

VARIABLES
    command,  \* the command value in hand: constructed, or just decoded
    octets,   \* the buffer in hand: delivered, or just encoded
    result,   \* what the last codec call returned
    calls,    \* the codec calls made since the fresh input, in order
    origin,   \* the fresh input the calls started from
    dropped   \* how many octets the transport cut off the buffer's end

vars == <<command, octets, result, calls, origin, dropped>>

\* ------------------------------------------------------------------ bounds

\* The longest chain of codec calls made on one fresh input.
MaxCalls == 3

\* The longest client_infos sequence enumerated exhaustively.
MaxClients == 2

\* ------------------------------------------------------------ program data

PING_COMMAND_TYPE_ID == 1

ROOM_INFO_COMMAND_TYPE_ID == 2

None == [type |-> "None"]

Ok(v) == [kind |-> "Ok", value |-> v]

Panic(cause) == [kind |-> "Panic", cause |-> cause]

Err(message) == [kind |-> "Err", message |-> message]

\* ------------------------------------------------- byteorder: write side

write_u8(writer, v) == Append(writer, v)

\* Mutant: the two octets in little-endian order.
write_u16_LittleEndian(writer, v) == writer \o <<v % 256, v \div 256>>

write_u16(writer, v) == writer \o <<v \div 256, v % 256>>

write_u64(writer, v) ==
    writer \o <<v[1] \div 256, v[1] % 256, v[2] \div 256, v[2] % 256,
                v[3] \div 256, v[3] % 256, v[4] \div 256, v[4] % 256>>

\* -------------------------------------------------- byteorder: read side

\* Cursor::new(input): position 0 over the input slice.
Cursor(input) == [data |-> input, pos |-> 0]

\* read_exact on a Cursor: n octets from the position, or UnexpectedEof.
read_exact(reader, n) ==
    IF reader.pos + n > Len(reader.data)
    THEN [ok |-> FALSE, error |-> "UnexpectedEof"]
    ELSE [ok |-> TRUE,
          bytes |-> SubSeq(reader.data, reader.pos + 1, reader.pos + n),
          reader |-> [reader EXCEPT !.pos = reader.pos + n]]

read_u8(reader) ==
    LET r == read_exact(reader, 1)
    IN  IF r.ok THEN [ok |-> TRUE, value |-> r.bytes[1], reader |-> r.reader]
        ELSE r

read_u16(reader) ==
    LET r == read_exact(reader, 2)
    IN  IF r.ok
        THEN [ok |-> TRUE, value |-> r.bytes[1] * 256 + r.bytes[2],
              reader |-> r.reader]
        ELSE r

\* Mutant: the eight octets taken in little-endian order.
read_u64_LittleEndian(reader) ==
    LET r == read_exact(reader, 8)
    IN  IF r.ok
        THEN [ok |-> TRUE,
              value |-> <<r.bytes[8] * 256 + r.bytes[7],
                          r.bytes[6] * 256 + r.bytes[5],
                          r.bytes[4] * 256 + r.bytes[3],
                          r.bytes[2] * 256 + r.bytes[1]>>,
              reader |-> r.reader]
        ELSE r

read_u64(reader) ==
    LET r == read_exact(reader, 8)
    IN  IF r.ok
        THEN [ok |-> TRUE,
              value |-> <<r.bytes[1] * 256 + r.bytes[2],
                          r.bytes[3] * 256 + r.bytes[4],
                          r.bytes[5] * 256 + r.bytes[6],
                          r.bytes[7] * 256 + r.bytes[8]>>,
              reader |-> r.reader]
        ELSE r

\* Result::unwrap() on a failed read panics.
UnwrapPanic == Panic("unwrap on Err(UnexpectedEof)")

\* ------------------------------------------------------------ PingCommand

PingCommand(term, knowledge, has_connection_to_leader) ==
    [type |-> "PingCommand", term |-> term, knowledge |-> knowledge,
     has_connection_to_leader |-> has_connection_to_leader]

\* Mutant: knowledge written before term.
PingCommand_to_octets_KnowledgeFirst(self) ==
    LET w1 == write_u64(<<>>, self.knowledge)
        w2 == write_u16(w1, self.term)
    IN  write_u8(w2, IF self.has_connection_to_leader THEN 1 ELSE 0)

PingCommand_to_octets(self) ==
    LET w1 == write_u16(<<>>, self.term)
        w2 == write_u64(w1, self.knowledge)
    IN  write_u8(w2, IF self.has_connection_to_leader THEN 1 ELSE 0)

\* Mutant: only the octet 0x01 counts as true.
PingCommand_from_cursor_StrictBool(reader) ==
    LET r1 == read_u16(reader)
    IN  IF ~r1.ok THEN UnwrapPanic ELSE
        LET r2 == read_u64(r1.reader)
        IN  IF ~r2.ok THEN UnwrapPanic ELSE
            LET r3 == read_u8(r2.reader)
            IN  IF ~r3.ok THEN UnwrapPanic ELSE
                [kind |-> "Ok",
                 value |-> PingCommand(r1.value, r2.value, r3.value = 1),
                 reader |-> r3.reader]

PingCommand_from_cursor(reader) ==
    LET r1 == read_u16(reader)
    IN  IF ~r1.ok THEN UnwrapPanic ELSE
        LET r2 == read_u64(r1.reader)
        IN  IF ~r2.ok THEN UnwrapPanic ELSE
            LET r3 == read_u8(r2.reader)
            IN  IF ~r3.ok THEN UnwrapPanic ELSE
                [kind |-> "Ok",
                 value |-> PingCommand(r1.value, r2.value, r3.value # 0),
                 reader |-> r3.reader]

\* ------------------------------------------- ClientInfo, RoomInfoCommand

ClientInfo(custom_user_id, connection_index) ==
    [custom_user_id |-> custom_user_id, connection_index |-> connection_index]

RoomInfoCommand(term, leader_index, client_infos) ==
    [type |-> "RoomInfoCommand", term |-> term, leader_index |-> leader_index,
     client_infos |-> client_infos]

\* Mutant: a count that saturates at 255 instead of wrapping.
as_u8_Saturating(n) == IF n > 255 THEN 255 ELSE n

\* `len() as u8`: the usize is cut to its low eight bits.
as_u8(n) == n % 256

\* Mutant: custom_user_id written before connection_index.
write_client_info_IdFirst(writer, client_info) ==
    write_u8(write_u64(writer, client_info.custom_user_id),
             client_info.connection_index)

\* The body of the loop of to_octets: one client info appended.
write_client_info(writer, client_info) ==
    write_u64(write_u8(writer, client_info.connection_index),
              client_info.custom_user_id)

RECURSIVE write_client_infos(_, _, _)
\* The loop of to_octets over the client infos lo..hi, in sequence order: the
\* octets it appends.  The range is halved rather than walked one by one
\* (appending is associative), which keeps the evaluation shallow on long
\* sequences.
write_client_infos(client_infos, lo, hi) ==
    IF lo > hi THEN <<>>
    ELSE IF lo = hi THEN write_client_info(<<>>, client_infos[lo])
    ELSE LET mid == (lo + hi) \div 2
         IN  write_client_infos(client_infos, lo, mid)
             \o write_client_infos(client_infos, mid + 1, hi)

RoomInfoCommand_to_octets(self) ==
    LET w1 == write_u16(<<>>, self.term)
        w2 == write_u8(w1, as_u8(Len(self.client_infos)))
        w3 == w2 \o write_client_infos(self.client_infos, 1,
                                       Len(self.client_infos))
    IN  write_u8(w3, self.leader_index)

RECURSIVE read_client_infos(_, _, _, _)
\* The loop of from_cursor: slice.iter_mut().take(length), from the i-th
\* element on; each element is overwritten by one record read.
read_client_infos(reader, slice, i, length) ==
    IF i > length \/ i > Len(slice) THEN [ok |-> TRUE, slice |-> slice,
                                         reader |-> reader]
    ELSE LET r1 == read_u8(reader)
         IN  IF ~r1.ok THEN r1 ELSE
             LET r2 == read_u64(r1.reader)
             IN  IF ~r2.ok THEN r2 ELSE
                 read_client_infos(
                     r2.reader,
                     [slice EXCEPT ![i] = ClientInfo(r2.value, r1.value)],
                     i + 1, length)

RoomInfoCommand_from_cursor(reader) ==
    LET r1 == read_u16(reader)
    IN  IF ~r1.ok THEN UnwrapPanic ELSE
        LET r2 == read_u8(r1.reader)
        IN  IF ~r2.ok THEN UnwrapPanic ELSE
            LET length == r2.value
                vec == <<ClientInfo(<<0, 0, 0, 0>>, 0)>>
            IN  IF length > Len(vec)
                THEN Panic("range end index out of range for slice")
                ELSE
                LET r3 == read_client_infos(r2.reader, SubSeq(vec, 1, length),
                                            1, length)
                IN  IF ~r3.ok THEN UnwrapPanic ELSE
                    LET r4 == read_u8(r3.reader)
                    IN  IF ~r4.ok THEN UnwrapPanic ELSE
                        [kind |-> "Ok",
                         value |-> RoomInfoCommand(r1.value, r4.value, r3.slice),
                         reader |-> r4.reader]

\* --------------------------------------------------- ServerReceiveCommand

PingCommandType(ping_command) ==
    [type |-> "PingCommandType", ping_command |-> ping_command]

HexDigit(d) ==
    <<"0", "1", "2", "3", "4", "5", "6", "7",
      "8", "9", "a", "b", "c", "d", "e", "f">>[d + 1]

\* format!("{:x}", n) of a u8: lower-case hex digits, no padding.
LowerHex(n) ==
    IF n < 16 THEN <<HexDigit(n)>>
    ELSE <<HexDigit(n \div 16), HexDigit(n % 16)>>

\* format!("unknown command 0x{:x}", command_type_id)
UnknownCommand(command_type_id) ==
    Err(<<"unknown command 0x">> \o LowerHex(command_type_id))

ServerReceiveCommand_to_octets(self) ==
    LET writer == write_u8(<<>>, PING_COMMAND_TYPE_ID)
    IN  Ok(writer \o PingCommand_to_octets(self.ping_command))

\* Mutant: every identifier is taken for a Ping.
ServerReceiveCommand_from_cursor_NoFallthrough(reader) ==
    LET r == read_u8(reader)
    IN  IF ~r.ok THEN UnwrapPanic ELSE
        LET p == PingCommand_from_cursor(r.reader)
        IN  IF p.kind = "Ok" THEN Ok(PingCommandType(p.value)) ELSE p

ServerReceiveCommand_from_cursor(reader) ==
    LET r == read_u8(reader)
    IN  IF ~r.ok THEN UnwrapPanic ELSE
        LET command_type_id == r.value
        IN  IF command_type_id = PING_COMMAND_TYPE_ID
            THEN LET p == PingCommand_from_cursor(r.reader)
                 IN  IF p.kind = "Ok" THEN Ok(PingCommandType(p.value)) ELSE p
            ELSE UnknownCommand(command_type_id)

ServerReceiveCommand_from_octets(input) ==
    ServerReceiveCommand_from_cursor(Cursor(input))

\* --------------------------------------------------- ClientReceiveCommand

RoomInfoType(room_info_command) ==
    [type |-> "RoomInfoType", room_info_command |-> room_info_command]

ClientReceiveCommand_to_octets(self) ==
    LET writer == write_u8(<<>>, ROOM_INFO_COMMAND_TYPE_ID)
    IN  Ok(writer \o RoomInfoCommand_to_octets(self.room_info_command))

ClientReceiveCommand_from_octets(input) ==
    LET r == read_u8(Cursor(input))
    IN  IF ~r.ok THEN UnwrapPanic ELSE
        LET command_type_id == r.value
        IN  IF command_type_id = ROOM_INFO_COMMAND_TYPE_ID
            THEN LET c == RoomInfoCommand_from_cursor(r.reader)
                 IN  IF c.kind = "Ok" THEN Ok(RoomInfoType(c.value)) ELSE c
            ELSE UnknownCommand(command_type_id)

\* ------------------------------------------------- the values enumerated

TermSamples == {0, 32, 74, 256, 65535}

\* 0, 444441, 17718865395771014920 and 2^64 - 1, as 16-bit limbs.
U64Samples ==
    {<<0, 0, 0, 0>>, <<0, 0, 6, 51225>>, <<62950, 3634, 59876, 32520>>,
     <<65535, 65535, 65535, 65535>>}

PingCommands ==
    {PingCommand(t, k, h) : t \in TermSamples, k \in U64Samples, h \in BOOLEAN}

ClientInfoSamples ==
    {ClientInfo(<<0, 0, 0, 1>>, 0), ClientInfo(<<62950, 3634, 59876, 32520>>, 1),
     ClientInfo(<<65535, 65535, 65535, 65535>>, 255)}

\* Every client_infos sequence of up to MaxClients sampled entries.
ClientInfoSeqs == UNION {[1..n -> ClientInfoSamples] : n \in 0..MaxClients}

\* A client_infos sequence of n distinct entries, for counts around the
\* limit of the one-octet count.
LongClientInfos(n) ==
    [i \in 1..n |-> ClientInfo(<<0, i % 7, i \div 256, i>>, i % 256)]

LargeCounts == {255, 256, 257}

RoomInfoCommands ==
    {RoomInfoCommand(t, l, cs) :
        t \in {74, 256}, l \in {0, 1, 255}, cs \in ClientInfoSeqs}
    \cup {RoomInfoCommand(74, 1, LongClientInfos(n)) : n \in LargeCounts}

ServerReceiveCommands == {PingCommandType(p) : p \in PingCommands}

ClientReceiveCommands == {RoomInfoType(r) : r \in RoomInfoCommands}

Commands ==
    PingCommands \cup RoomInfoCommands \cup ServerReceiveCommands
    \cup ClientReceiveCommands

\* Buffers as the transport delivers them, written out octet by octet.
TermOctets == {<<0, 32>>, <<0, 74>>, <<1, 0>>, <<255, 255>>}

U64Octets ==
    {<<0, 0, 0, 0, 0, 0, 0, 0>>, <<245, 230, 14, 50, 233, 228, 127, 8>>,
     <<255, 255, 255, 255, 255, 255, 255, 255>>}

RecordOctets == {<<c>> \o id : c \in {0, 1, 255}, id \in U64Octets}

RECURSIVE FlattenRange(_, _, _)
FlattenRange(ss, lo, hi) ==
    IF lo > hi THEN <<>>
    ELSE IF lo = hi THEN ss[lo]
    ELSE LET mid == (lo + hi) \div 2
         IN  FlattenRange(ss, lo, mid) \o FlattenRange(ss, mid + 1, hi)

Flatten(ss) == FlattenRange(ss, 1, Len(ss))

\* count records of nine octets, the i-th beginning with the octet i % 256.
LongRecordOctets(count) ==
    Flatten([i \in 1..count |-> <<i % 256, 0, 0, 0, 0, 0, 0, i \div 256, i % 256>>])

\* PingCommand payloads of 11 octets, with every value of the last octet.
PingPayloadBuffers ==
    {t \o k \o <<h>> : t \in {<<0, 32>>},
                       k \in {<<245, 230, 14, 50, 233, 228, 127, 8>>},
                       h \in 0..255}

\* 12 octets: 0x01, a term, a knowledge, and 0x00 or 0x01.
ServerBuffers ==
    {<<1>> \o t \o k \o <<h>> : t \in TermOctets, k \in U64Octets, h \in {0, 1}}

\* 0x02, a term, a count, count records, a leader_index.
ClientBuffers ==
    {<<2>> \o t \o <<Len(rs)>> \o Flatten(rs) \o <<l>> :
        t \in {<<0, 74>>, <<1, 0>>}, l \in {0, 1},
        rs \in UNION {[1..n -> RecordOctets] : n \in 0..MaxClients}}
    \cup {<<2, 0, 74, 255>> \o LongRecordOctets(255) \o <<1>>}

\* Any first octet, followed by nothing, by a RoomInfo payload or by a
\* PingCommand payload.
DispatchBuffers ==
    {<<id>> \o tail :
        id \in 0..255,
        tail \in {<<>>, <<0, 74, 0, 1>>,
                  <<0, 32, 245, 230, 14, 50, 233, 228, 127, 8, 1>>}}

Buffers ==
    {<<>>} \cup PingPayloadBuffers \cup ServerBuffers \cup ClientBuffers
    \cup DispatchBuffers

\* ------------------------------------------------------------ the harness

Octets(bytes) == [type |-> "Octets", bytes |-> bytes]

\* What the caller keeps of a from_cursor result: the value, or the panic.
Returned(r) == IF r.kind = "Ok" THEN Ok(r.value) ELSE r

ValueOf(r) == IF r.kind = "Ok" THEN r.value ELSE None

Init ==
    /\ command = None
    /\ octets = None
    /\ result = None
    /\ calls = <<>>
    /\ origin = None
    /\ dropped = 0

\* An application assembles a command to send.
Construct(c) ==
    /\ origin = None
    /\ command' = c
    /\ octets' = None
    /\ result' = None
    /\ calls' = <<>>
    /\ origin' = c
    /\ dropped' = 0

\* The transport hands over a received buffer.
Deliver(b) ==
    /\ origin = None
    /\ command' = None
    /\ octets' = Octets(b)
    /\ result' = None
    /\ calls' = <<>>
    /\ origin' = Octets(b)
    /\ dropped' = 0

\* The transport loses the end of a buffer a dispatch layer encoded: a proper,
\* non-empty prefix of it is what arrives.
Truncate ==
    /\ octets.type = "Octets"
    /\ dropped = 0
    /\ calls # <<>>
    /\ calls[Len(calls)] \in {"ServerReceiveCommand::to_octets",
                              "ClientReceiveCommand::to_octets"}
    /\ \E n \in 1..(Len(octets.bytes) - 1) :
          /\ octets' = Octets(SubSeq(octets.bytes, 1, n))
          /\ dropped' = Len(octets.bytes) - n
    /\ UNCHANGED <<command, result, calls, origin>>

\* An encoder was called on the command in hand and returned r.
Encoded(name, r) ==
    /\ result' = r
    /\ octets' = IF r.kind = "Ok" THEN Octets(r.value) ELSE None
    /\ command' = None
    /\ calls' = Append(calls, name)
    /\ UNCHANGED <<origin, dropped>>

\* A decoder was called on the buffer in hand and returned r.
Decoded(name, r) ==
    /\ result' = r
    /\ command' = ValueOf(r)
    /\ octets' = None
    /\ calls' = Append(calls, name)
    /\ UNCHANGED <<origin, dropped>>

PingToOctets ==
    /\ Len(calls) < MaxCalls
    /\ command.type = "PingCommand"
    /\ Encoded("PingCommand::to_octets", Ok(PingCommand_to_octets(command)))

PingFromCursor ==
    /\ Len(calls) < MaxCalls
    /\ octets.type = "Octets"
    /\ Decoded("PingCommand::from_cursor",
               Returned(PingCommand_from_cursor(Cursor(octets.bytes))))

RoomInfoToOctets ==
    /\ Len(calls) < MaxCalls
    /\ command.type = "RoomInfoCommand"
    /\ Encoded("RoomInfoCommand::to_octets",
               Ok(RoomInfoCommand_to_octets(command)))

RoomInfoFromCursor ==
    /\ Len(calls) < MaxCalls
    /\ octets.type = "Octets"
    /\ Decoded("RoomInfoCommand::from_cursor",
               Returned(RoomInfoCommand_from_cursor(Cursor(octets.bytes))))

ServerToOctets ==
    /\ Len(calls) < MaxCalls
    /\ command.type = "PingCommandType"
    /\ Encoded("ServerReceiveCommand::to_octets",
               ServerReceiveCommand_to_octets(command))

ServerFromOctets ==
    /\ Len(calls) < MaxCalls
    /\ octets.type = "Octets"
    /\ Decoded("ServerReceiveCommand::from_octets",
               ServerReceiveCommand_from_octets(octets.bytes))

ClientToOctets ==
    /\ Len(calls) < MaxCalls
    /\ command.type = "RoomInfoType"
    /\ Encoded("ClientReceiveCommand::to_octets",
               ClientReceiveCommand_to_octets(command))

ClientFromOctets ==
    /\ Len(calls) < MaxCalls
    /\ octets.type = "Octets"
    /\ Decoded("ClientReceiveCommand::from_octets",
               ClientReceiveCommand_from_octets(octets.bytes))

Next ==
    \/ \E c \in Commands : Construct(c)
    \/ \E b \in Buffers : Deliver(b)
    \/ Truncate
    \/ PingToOctets
    \/ PingFromCursor
    \/ RoomInfoToOctets
    \/ RoomInfoFromCursor
    \/ ServerToOctets
    \/ ServerFromOctets
    \/ ClientToOctets
    \/ ClientFromOctets

Spec == Init /\ [][Next]_vars

\* ------------------------------------------------------------- the claims

PingTo == "PingCommand::to_octets"

PingFrom == "PingCommand::from_cursor"

RoomInfoTo == "RoomInfoCommand::to_octets"

RoomInfoFrom == "RoomInfoCommand::from_cursor"

ServerTo == "ServerReceiveCommand::to_octets"

ServerFrom == "ServerReceiveCommand::from_octets"

ClientTo == "ClientReceiveCommand::to_octets"

ClientFrom == "ClientReceiveCommand::from_octets"

\* The octet written for a boolean flag.
BoolOctet(flag) == IF flag THEN 1 ELSE 0

\* b[at], b[at + 1] hold the 16-bit value v, most significant octet first.
BigEndian16At(b, at, v) == b[at] = v \div 256 /\ b[at + 1] = v % 256

\* b[at] .. b[at + 7] hold the 64-bit value v, most significant octet first.
BigEndian64At(b, at, v) ==
    \A j \in 1..4 : BigEndian16At(b, at + 2 * (j - 1), v[j])

\* b[at] .. b[at + 8] hold one client info: connection_index, then
\* custom_user_id.
ClientInfoAt(b, at, client_info) ==
    /\ b[at] = client_info.connection_index
    /\ BigEndian64At(b, at + 1, client_info.custom_user_id)

\* C1: a PingCommand encoded by to_octets and decoded by from_cursor comes
\* back equal to the command that was encoded.
PingValueRoundTrip ==
    (origin.type = "PingCommand" /\ calls = <<PingTo, PingFrom>>)
        => (result.kind = "Ok" /\ result.value = origin)

PingValueRoundTripWitness ==
    /\ origin = PingCommand(256, <<62950, 3634, 59876, 32520>>, TRUE)
    /\ calls = <<PingTo, PingFrom>>
    /\ result.kind = "Ok"
    /\ command = origin

\* C2: a RoomInfoCommand of at most 255 client infos encoded by to_octets and
\* decoded by from_cursor comes back equal: same term, same leader_index,
\* same client_infos in the same order.
RoomInfoValueRoundTrip ==
    (/\ origin.type = "RoomInfoCommand"
     /\ Len(origin.client_infos) <= 255
     /\ calls = <<RoomInfoTo, RoomInfoFrom>>)
        => (result.kind = "Ok" /\ result.value = origin)

\* C3: a 12-octet buffer beginning 0x01 and ending 0x00 or 0x01 decodes with
\* ServerReceiveCommand::from_octets to a Ping command, and to_octets on that
\* command returns the very octets of the buffer.
ServerByteRoundTrip ==
    (/\ origin.type = "Octets"
     /\ Len(origin.bytes) = 12
     /\ origin.bytes[1] = 1
     /\ origin.bytes[12] \in {0, 1})
        => /\ calls = <<ServerFrom>>
                => (result.kind = "Ok" /\ result.value.type = "PingCommandType")
           /\ calls = <<ServerFrom, ServerTo>>
                => (result.kind = "Ok" /\ result.value = origin.bytes)

ServerByteRoundTripWitness ==
    /\ origin = Octets(<<1, 0, 32, 245, 230, 14, 50, 233, 228, 127, 8, 1>>)
    /\ calls = <<ServerFrom, ServerTo>>
    /\ result = Ok(<<1, 0, 32, 245, 230, 14, 50, 233, 228, 127, 8, 1>>)

\* A buffer of the client-inbound form: 0x02, a term, a count, count records
\* of nine octets, a leader_index.
IsClientBuffer(b) == Len(b) >= 5 /\ b[1] = 2 /\ Len(b) = 5 + 9 * b[4]

\* C4: a buffer of the client-inbound form, with any count, decodes with
\* ClientReceiveCommand::from_octets to a RoomInfo command of exactly count
\* client infos, and to_octets on that command returns the very octets of the
\* buffer.
ClientByteRoundTrip ==
    (origin.type = "Octets" /\ IsClientBuffer(origin.bytes))
        => /\ calls = <<ClientFrom>>
                => /\ result.kind = "Ok"
                   /\ result.value.type = "RoomInfoType"
                   /\ Len(result.value.room_info_command.client_infos)
                        = origin.bytes[4]
           /\ calls = <<ClientFrom, ClientTo>>
                => (result.kind = "Ok" /\ result.value = origin.bytes)

HexDigitValue(c) == CHOOSE d \in 0..15 : HexDigit(d) = c

RECURSIVE HexValue(_)
\* The number a sequence of lower-case hex digits spells.
HexValue(digits) ==
    IF digits = <<>> THEN 0
    ELSE 16 * HexValue(SubSeq(digits, 1, Len(digits) - 1))
         + HexDigitValue(digits[Len(digits)])

\* r is the unknown-command error, and the identifier its text spells is id.
IsUnknownCommand(r, id) ==
    /\ r.kind = "Err"
    /\ Len(r.message) >= 2
    /\ r.message[1] = "unknown command 0x"
    /\ HexValue(Tail(r.message)) = id

\* What a dispatch layer returns for a payload decoder's result p.
Routed(p, variant) ==
    IF p.kind = "Ok" THEN Ok([type |-> variant, payload |-> p.value]) ELSE p

\* The payload of a decoded command, whichever the variant.
PayloadOf(r) ==
    IF r.kind # "Ok" THEN r
    ELSE IF r.value.type = "PingCommandType"
         THEN Ok([type |-> "PingCommandType",
                  payload |-> r.value.ping_command])
         ELSE Ok([type |-> r.value.type,
                  payload |-> r.value.room_info_command])

\* C5: on a non-empty buffer, ServerReceiveCommand::from_octets returns the
\* unknown-command error carrying the first octet when that octet is not
\* 0x01, and ClientReceiveCommand::from_octets when it is not 0x02, whatever
\* follows; a first octet of 0x01 (server) or 0x02 (client) gives what the
\* PingCommand or RoomInfoCommand decoder makes of the rest, and never the
\* unknown-command error.
DispatchOnTypeId ==
    (origin.type = "Octets" /\ Len(origin.bytes) >= 1)
        => /\ calls = <<ServerFrom>>
                => IF origin.bytes[1] # 1
                   THEN IsUnknownCommand(result, origin.bytes[1])
                   ELSE /\ result.kind # "Err"
                        /\ PayloadOf(result)
                             = Routed(Returned(PingCommand_from_cursor(
                                   [data |-> origin.bytes, pos |-> 1])),
                                   "PingCommandType")
           /\ calls = <<ClientFrom>>
                => IF origin.bytes[1] # 2
                   THEN IsUnknownCommand(result, origin.bytes[1])
                   ELSE /\ result.kind # "Err"
                        /\ PayloadOf(result)
                             = Routed(Returned(RoomInfoCommand_from_cursor(
                                   [data |-> origin.bytes, pos |-> 1])),
                                   "RoomInfoType")

DispatchOnTypeIdWitness ==
    /\ origin = Octets(<<255, 0, 74, 0, 1>>)
    /\ calls = <<ServerFrom>>
    /\ result = Err(<<"unknown command 0x", "f", "f">>)

\* The command a valid encoded buffer was made from: a Ping, or a RoomInfo
\* whose count fits the count octet.
IsValidCommand(c) ==
    \/ c.type = "PingCommandType"
    \/ /\ c.type = "RoomInfoType"
       /\ Len(c.room_info_command.client_infos) <= 255

\* C6: a proper non-empty prefix of a valid encoded command buffer, decoded
\* with the matching from_octets, gives the caller the UnexpectedEndOfInput
\* error as a value: no command, and no aborted call.
TruncationSafety ==
    (/\ IsValidCommand(origin)
     /\ dropped > 0
     /\ calls \in {<<ServerTo, ServerFrom>>, <<ClientTo, ClientFrom>>})
        => result = Err(<<"UnexpectedEndOfInput">>)

\* C7: to_octets writes has_connection_to_leader as 0x01 for true and 0x00
\* for false; from_cursor reads false from the octet 0x00 and true from every
\* other octet.
BoolStrictEncodeLenientDecode ==
    /\ (origin.type = "PingCommand" /\ calls = <<PingTo>>)
        => /\ result.kind = "Ok"
           /\ Len(result.value) = 11
           /\ result.value[11]
                = (IF origin.has_connection_to_leader THEN 1 ELSE 0)
    /\ (origin.type = "Octets" /\ Len(origin.bytes) = 11
        /\ calls = <<PingFrom>>)
        => /\ result.kind = "Ok"
           /\ result.value.has_connection_to_leader = (origin.bytes[11] # 0)

BoolStrictEncodeLenientDecodeWitness ==
    /\ origin = Octets(<<0, 32, 245, 230, 14, 50, 233, 228, 127, 8, 254>>)
    /\ calls = <<PingFrom>>
    /\ result.kind = "Ok"
    /\ result.value.has_connection_to_leader = TRUE

\* C8: ServerReceiveCommand::to_octets of a Ping returns Ok with 12 octets:
\* 0x01, term big-endian, knowledge big-endian, and the flag octet.
ServerPingLayout ==
    (origin.type = "PingCommandType" /\ calls = <<ServerTo>>)
        => /\ result.kind = "Ok"
           /\ Len(result.value) = 12
           /\ result.value[1] = 1
           /\ BigEndian16At(result.value, 2, origin.ping_command.term)
           /\ BigEndian64At(result.value, 4, origin.ping_command.knowledge)
           /\ result.value[12]
                = BoolOctet(origin.ping_command.has_connection_to_leader)

ServerPingLayoutWitness ==
    /\ origin = PingCommandType(
                    PingCommand(256, <<62950, 3634, 59876, 32520>>, TRUE))
    /\ calls = <<ServerTo>>
    /\ result = Ok(<<1, 1, 0, 245, 230, 14, 50, 233, 228, 127, 8, 1>>)

\* C9: ClientReceiveCommand::to_octets of a RoomInfo of count <= 255 client
\* infos returns Ok with 5 + 9*count octets: 0x02, term big-endian, count,
\* then per client info, in order, connection_index and custom_user_id
\* big-endian, and last leader_index.
ClientRoomInfoLayout ==
    (/\ origin.type = "RoomInfoType"
     /\ Len(origin.room_info_command.client_infos) <= 255
     /\ calls = <<ClientTo>>)
        => LET room == origin.room_info_command
               count == Len(room.client_infos)
           IN  /\ result.kind = "Ok"
               /\ Len(result.value) = 5 + 9 * count
               /\ result.value[1] = 2
               /\ BigEndian16At(result.value, 2, room.term)
               /\ result.value[4] = count
               /\ \A i \in 1..count :
                     ClientInfoAt(result.value, 5 + 9 * (i - 1),
                                  room.client_infos[i])
               /\ result.value[5 + 9 * count] = room.leader_index

ClientRoomInfoLayoutWitness ==
    /\ origin = RoomInfoType(RoomInfoCommand(256, 255,
                    <<ClientInfo(<<62950, 3634, 59876, 32520>>, 1),
                      ClientInfo(<<0, 0, 0, 1>>, 0)>>))
    /\ calls = <<ClientTo>>
    /\ result = Ok(<<2, 1, 0, 2,
                     1, 245, 230, 14, 50, 233, 228, 127, 8,
                     0, 0, 0, 0, 0, 0, 0, 0, 1,
                     255>>)

\* C10: RoomInfoCommand::to_octets of n > 255 client infos reports no error,
\* writes n mod 256 as the count octet and all n records after it, 4 + 9*n
\* octets in all, so the count octet is not the number of records.
CountOverflowOnEncode ==
    (/\ origin.type = "RoomInfoCommand"
     /\ Len(origin.client_infos) > 255
     /\ calls = <<RoomInfoTo>>)
        => LET n == Len(origin.client_infos)
           IN  /\ result.kind = "Ok"
               /\ Len(result.value) = 4 + 9 * n
               /\ result.value[3] = n % 256
               /\ result.value[3] # n
               /\ \A i \in 1..n :
                     ClientInfoAt(result.value, 4 + 9 * (i - 1),
                                  origin.client_infos[i])
               /\ result.value[4 + 9 * n] = origin.leader_index

CountOverflowOnEncodeWitness ==
    /\ origin.type = "RoomInfoCommand"
    /\ Len(origin.client_infos) = 257
    /\ calls = <<RoomInfoTo>>
    /\ result.kind = "Ok"
    /\ Len(result.value) = 2317
    /\ result.value[3] = 1

=============================================================================
